---- MODULE Spec2Model ----
(***************************************************************************)
(* Model of the request-validation middleware of                           *)
(* zod-express-middleware-with-nextjs-api-utils.                           *)
(*                                                                         *)
(* Two source files are modelled:                                          *)
(*   src/src/index.ts      the params/query/body variant, whose error      *)
(*                         response is written through answer()            *)
(*   src/unnamed/part_000  the query/body variant for next-connect, whose  *)
(*                         error response is written with res.status().   *)
(*                         json(); its definitions carry the suffix NC     *)
(*                                                                         *)
(* A step (req, res, next) is synchronous, so one action is one whole      *)
(* invocation of a step.  What the step did is recorded in `trace`, the    *)
(* ordered list of its calls to safeParse, to the response writer and to   *)
(* next.                                                                   *)
(***************************************************************************)
EXTENDS Integers, Sequences, FiniteSets, TLC

\* ------------------------------------------------------------------ bounds

\* Number of distinct keys a request section or a schema may mention.
NumKeys == 2

\* How many times in a row the chain driver runs the same step on a request.
MaxRuns == 2

\* ------------------------------------------------------------------ values

KeyNames == <<"a", "b", "c", "d">>

Keys == {KeyNames[i] : i \in 1..NumKeys}

\* The key after k, cyclically.
NextKey(k) ==
    LET i == CHOOSE j \in 1..NumKeys : KeyNames[j] = k
    IN  KeyNames[(i % NumKeys) + 1]

\* A value of a section: the numeric string the transport layer delivers,
\* the number it is transformed to, and the number a schema default supplies.
StrSeven == "'7'"
NumSeven == "7"
NumZero  == "0"

Values == {StrSeven, NumSeven, NumZero}

EmptyMap == [k \in {} |-> NumZero]

\* All records (maps) with keys among Keys and values in V.
Maps(V) == UNION {[D -> V] : D \in SUBSET Keys}

\* Sections as the transport layer delivers them: strings only.
RawMaps == Maps({StrSeven})

RawRequests == [params : RawMaps, query : RawMaps, body : RawMaps]

\* { ...old, ...new }
Overlay(old, new) ==
    [k \in (DOMAIN old) \cup (DOMAIN new) |->
        IF k \in DOMAIN new THEN new[k] ELSE old[k]]

\* ----------------------------------------------------------------- schemas

NoKey == "none"

\* `undefined` in a schema set.
NoSchema == [req |-> NoKey, dflt |-> NoKey]

\* z.object({ [req]: z.string().regex(/^\d+$/).transform(Number) })  and
\* z.object({ [req]: ..., [dflt]: z.any().default(0) }): an object schema
\* strips the keys it does not name.
Schemas ==
    {[req |-> k, dflt |-> NoKey] : k \in Keys}
        \cup {[req |-> k, dflt |-> NextKey(k)] : k \in {x \in Keys : NextKey(x) # x}}

MaybeSchema == Schemas \cup {NoSchema}

\* Schema sets of index.ts: { params?, query?, body? }
SchemaSets == [params : MaybeSchema, query : MaybeSchema, body : MaybeSchema]

\* Schema sets of part_000: { query?, body? }
SchemaSetsNC == [params : {NoSchema}, query : MaybeSchema, body : MaybeSchema]

Only(section, schema) == [[params |-> NoSchema, query |-> NoSchema, body |-> NoSchema]
                            EXCEPT ![section] = schema]

Issue(path, message) == [path |-> path, message |-> message]

\* schema.safeParse(value)
safeParse(schema, value) ==
    IF schema.req \notin DOMAIN value
    THEN [success |-> FALSE, data |-> EmptyMap,
          error |-> <<Issue(schema.req, "Required")>>]
    ELSE IF value[schema.req] # StrSeven
    THEN [success |-> FALSE, data |-> EmptyMap,
          error |-> <<Issue(schema.req, "Expected string, received number")>>]
    ELSE [success |-> TRUE,
          data |-> [k \in {schema.req} \cup ({schema.dflt} \ {NoKey}) |->
                       IF k = schema.req THEN NumSeven
                       ELSE IF k \in DOMAIN value THEN value[k]
                       ELSE NumZero],
          error |-> <<>>]

\* ------------------------------------------------------------------ events

\* A call of the schema configured for section `type`, given request[source].
ParseEv(type, source, input, parsed) ==
    [kind |-> "parse", type |-> type, source |-> source, input |-> input,
     success |-> parsed.success, data |-> parsed.data, error |-> parsed.error,
     status |-> 0, meta |-> <<>>]

SendEv(status, errorCode, meta) ==
    [kind |-> "send", type |-> errorCode, source |-> "", input |-> EmptyMap,
     success |-> FALSE, data |-> EmptyMap, error |-> <<>>,
     status |-> status, meta |-> meta]

NextEv ==
    [kind |-> "next", type |-> "", source |-> "", input |-> EmptyMap,
     success |-> TRUE, data |-> EmptyMap, error |-> <<>>,
     status |-> 0, meta |-> <<>>]

ErrorListItem(type, parsed) == [type |-> type, errors |-> parsed.error]

VARIABLES
    req,      \* the request: [params, query, body]
    entry,    \* the request as it was on entry to the current invocation
    step,     \* the entry point whose step ran last ("none" before any)
    schemas,  \* the schema set that step is closed over
    trace,    \* what the current invocation did, in order
    runs      \* how many times the step has run on this request

vars == <<req, entry, step, schemas, trace, runs>>


\* ------------------------------------------------- src/src/index.ts: steps

\* The result of one invocation: the request afterwards and what was done.
Result(r, t) == [req |-> r, trace |-> t]

\* sendErrors(errors, res, req): answer(req, res, { statusCode: 400, ... })
\* writes the one response.
sendErrors(errors) ==
    <<SendEv(400, "BAD_REQUEST",
             [i \in 1..Len(errors) |->
                 [type |-> errors[i].type, errors |-> errors[i].errors]])>>

processRequestBodyStep(effectsSchema, r) ==
    LET parsed == safeParse(effectsSchema, r.body)
        ev     == ParseEv("Body", "body", r.body, parsed)
    IN  IF parsed.success
        THEN Result([r EXCEPT !.body = parsed.data], <<ev, NextEv>>)
        ELSE Result(r, <<ev>> \o sendErrors(<<ErrorListItem("Body", parsed)>>))

processRequestParamsStep(effectsSchema, r) ==
    LET parsed == safeParse(effectsSchema, r.query)
        ev     == ParseEv("Params", "query", r.query, parsed)
    IN  IF parsed.success
        THEN Result([r EXCEPT !.query = Overlay(r.query, parsed.data)], <<ev, NextEv>>)
        ELSE Result(r, <<ev>> \o sendErrors(<<ErrorListItem("Params", parsed)>>))

processRequestQueryStep(effectsSchema, r) ==
    LET parsed == safeParse(effectsSchema, r.query)
        ev     == ParseEv("Query", "query", r.query, parsed)
    IN  IF parsed.success
        THEN Result([r EXCEPT !.query = Overlay(r.query, parsed.data)], <<ev, NextEv>>)
        ELSE Result(r, <<ev>> \o sendErrors(<<ErrorListItem("Query", parsed)>>))

\* The running state of a multi-section step: request, errors, trace so far.
Running(r, errors, t) == [req |-> r, errors |-> errors, trace |-> t]

\* if (schemas.params) { ... }
processRequest_params(ss, st) ==
    IF ss.params = NoSchema THEN st
    ELSE LET parsed == safeParse(ss.params, st.req.params)
             ev     == ParseEv("Params", "params", st.req.params, parsed)
         IN  IF parsed.success
             THEN Running([st.req EXCEPT !.query = Overlay(st.req.query, parsed.data)],
                          st.errors, Append(st.trace, ev))
             ELSE Running(st.req, Append(st.errors, ErrorListItem("Params", parsed)),
                          Append(st.trace, ev))

\* Mutant: if (schemas.query && errors.length === 0): stop at the first failure.
processRequest_query_shortCircuit(ss, st) ==
    IF ss.query = NoSchema \/ Len(st.errors) > 0 THEN st
    ELSE LET parsed == safeParse(ss.query, st.req.query)
             ev     == ParseEv("Query", "query", st.req.query, parsed)
         IN  IF parsed.success
             THEN Running([st.req EXCEPT !.query = Overlay(st.req.query, parsed.data)],
                          st.errors, Append(st.trace, ev))
             ELSE Running(st.req, Append(st.errors, ErrorListItem("Query", parsed)),
                          Append(st.trace, ev))

\* if (schemas.query) { ... }
processRequest_query(ss, st) ==
    IF ss.query = NoSchema THEN st
    ELSE LET parsed == safeParse(ss.query, st.req.query)
             ev     == ParseEv("Query", "query", st.req.query, parsed)
         IN  IF parsed.success
             THEN Running([st.req EXCEPT !.query = Overlay(st.req.query, parsed.data)],
                          st.errors, Append(st.trace, ev))
             ELSE Running(st.req, Append(st.errors, ErrorListItem("Query", parsed)),
                          Append(st.trace, ev))

\* if (schemas.body) { ... }
processRequest_body(ss, st) ==
    IF ss.body = NoSchema THEN st
    ELSE LET parsed == safeParse(ss.body, st.req.body)
             ev     == ParseEv("Body", "body", st.req.body, parsed)
         IN  IF parsed.success
             THEN Running([st.req EXCEPT !.body = parsed.data],
                          st.errors, Append(st.trace, ev))
             ELSE Running(st.req, Append(st.errors, ErrorListItem("Body", parsed)),
                          Append(st.trace, ev))

\* Mutant: if (errors.length > 1): a single failure is let through.
processRequest_decide_offByOne(st) ==
    IF Len(st.errors) > 1
    THEN Result(st.req, st.trace \o sendErrors(st.errors))
    ELSE Result(st.req, Append(st.trace, NextEv))

\* if (errors.length > 0) return sendErrors(errors, res, req); return next();
processRequest_decide(st) ==
    IF Len(st.errors) > 0
    THEN Result(st.req, st.trace \o sendErrors(st.errors))
    ELSE Result(st.req, Append(st.trace, NextEv))

processRequestStep(ss, r) ==
    processRequest_decide(
        processRequest_body(ss,
            processRequest_query(ss,
                processRequest_params(ss, Running(r, <<>>, <<>>)))))

validateRequestBodyStep(schema, r) ==
    LET parsed == safeParse(schema, r.body)
        ev     == ParseEv("Body", "body", r.body, parsed)
    IN  IF parsed.success
        THEN Result(r, <<ev, NextEv>>)
        ELSE Result(r, <<ev>> \o sendErrors(<<ErrorListItem("Body", parsed)>>))

validateRequestParamsStep(schema, r) ==
    LET parsed == safeParse(schema, r.params)
        ev     == ParseEv("Params", "params", r.params, parsed)
    IN  IF parsed.success
        THEN Result(r, <<ev, NextEv>>)
        ELSE Result(r, <<ev>> \o sendErrors(<<ErrorListItem("Params", parsed)>>))

validateRequestQueryStep(schema, r) ==
    LET parsed == safeParse(schema, r.query)
        ev     == ParseEv("Query", "query", r.query, parsed)
    IN  IF parsed.success
        THEN Result(r, <<ev, NextEv>>)
        ELSE Result(r, <<ev>> \o sendErrors(<<ErrorListItem("Query", parsed)>>))

\* if (params) { ... }
validateRequest_params(ss, st) ==
    IF ss.params = NoSchema THEN st
    ELSE LET parsed == safeParse(ss.params, st.req.params)
             ev     == ParseEv("Params", "params", st.req.params, parsed)
         IN  Running(st.req,
                     IF parsed.success THEN st.errors
                     ELSE Append(st.errors, ErrorListItem("Params", parsed)),
                     Append(st.trace, ev))

\* Mutant: the query failure is reported only when nothing failed before it.
validateRequest_query_firstOnly(ss, st) ==
    IF ss.query = NoSchema THEN st
    ELSE LET parsed == safeParse(ss.query, st.req.query)
             ev     == ParseEv("Query", "query", st.req.query, parsed)
         IN  Running(st.req,
                     IF parsed.success \/ Len(st.errors) > 0 THEN st.errors
                     ELSE Append(st.errors, ErrorListItem("Query", parsed)),
                     Append(st.trace, ev))

\* if (query) { ... }
validateRequest_query(ss, st) ==
    IF ss.query = NoSchema THEN st
    ELSE LET parsed == safeParse(ss.query, st.req.query)
             ev     == ParseEv("Query", "query", st.req.query, parsed)
         IN  Running(st.req,
                     IF parsed.success THEN st.errors
                     ELSE Append(st.errors, ErrorListItem("Query", parsed)),
                     Append(st.trace, ev))

\* Mutant: on success req.body = parsed.data, as processRequest does.
validateRequest_body_coerce(ss, st) ==
    IF ss.body = NoSchema THEN st
    ELSE LET parsed == safeParse(ss.body, st.req.body)
             ev     == ParseEv("Body", "body", st.req.body, parsed)
         IN  Running(IF parsed.success THEN [st.req EXCEPT !.body = parsed.data]
                     ELSE st.req,
                     IF parsed.success THEN st.errors
                     ELSE Append(st.errors, ErrorListItem("Body", parsed)),
                     Append(st.trace, ev))

\* if (body) { ... }
validateRequest_body(ss, st) ==
    IF ss.body = NoSchema THEN st
    ELSE LET parsed == safeParse(ss.body, st.req.body)
             ev     == ParseEv("Body", "body", st.req.body, parsed)
         IN  Running(st.req,
                     IF parsed.success THEN st.errors
                     ELSE Append(st.errors, ErrorListItem("Body", parsed)),
                     Append(st.trace, ev))

\* Mutant: if (errors.length >= 0): an error response even with no error.
validateRequest_decide_ge(st) ==
    IF Len(st.errors) >= 0
    THEN Result(st.req, st.trace \o sendErrors(st.errors))
    ELSE Result(st.req, Append(st.trace, NextEv))

\* if (errors.length > 0) return sendErrors(errors, res, req); return next();
validateRequest_decide(st) ==
    IF Len(st.errors) > 0
    THEN Result(st.req, st.trace \o sendErrors(st.errors))
    ELSE Result(st.req, Append(st.trace, NextEv))

validateRequestStep(ss, r) ==
    validateRequest_decide(
        validateRequest_body(ss,
            validateRequest_query(ss,
                validateRequest_params(ss, Running(r, <<>>, <<>>)))))


\* --------------------------------------------- src/unnamed/part_000: steps

\* sendErrors(errors, res): res.status(400).json({ success: false, ... })
sendErrorsNC(errors) ==
    <<SendEv(400, "bad_request",
             [i \in 1..Len(errors) |->
                 [type |-> errors[i].type, errors |-> errors[i].errors]])>>

processRequestBodyNCStep(effectsSchema, r) ==
    LET parsed == safeParse(effectsSchema, r.body)
        ev     == ParseEv("Body", "body", r.body, parsed)
    IN  IF parsed.success
        THEN Result([r EXCEPT !.body = parsed.data], <<ev, NextEv>>)
        ELSE Result(r, <<ev>> \o sendErrorsNC(<<ErrorListItem("Body", parsed)>>))

processRequestQueryNCStep(effectsSchema, r) ==
    LET parsed == safeParse(effectsSchema, r.query)
        ev     == ParseEv("Query", "query", r.query, parsed)
    IN  IF parsed.success
        THEN Result([r EXCEPT !.query = Overlay(r.query, parsed.data)], <<ev, NextEv>>)
        ELSE Result(r, <<ev>> \o sendErrorsNC(<<ErrorListItem("Query", parsed)>>))

processRequestNCStep(ss, r) ==
    LET pq  == safeParse(ss.query, r.query)
        evq == ParseEv("Query", "query", r.query, pq)
        s1  == IF ss.query = NoSchema THEN Running(r, <<>>, <<>>)
               ELSE IF pq.success
               THEN Running([r EXCEPT !.query = Overlay(r.query, pq.data)], <<>>, <<evq>>)
               ELSE Running(r, <<ErrorListItem("Query", pq)>>, <<evq>>)
        pb  == safeParse(ss.body, s1.req.body)
        evb == ParseEv("Body", "body", s1.req.body, pb)
        s2  == IF ss.body = NoSchema THEN s1
               ELSE IF pb.success
               THEN Running([s1.req EXCEPT !.body = pb.data], s1.errors,
                            Append(s1.trace, evb))
               ELSE Running(s1.req, Append(s1.errors, ErrorListItem("Body", pb)),
                            Append(s1.trace, evb))
    IN  IF Len(s2.errors) > 0
        THEN Result(s2.req, s2.trace \o sendErrorsNC(s2.errors))
        ELSE Result(s2.req, Append(s2.trace, NextEv))

validateRequestBodyNCStep(schema, r) ==
    LET parsed == safeParse(schema, r.body)
        ev     == ParseEv("Body", "body", r.body, parsed)
    IN  IF parsed.success
        THEN Result(r, <<ev, NextEv>>)
        ELSE Result(r, <<ev>> \o sendErrorsNC(<<ErrorListItem("Body", parsed)>>))

validateRequestQueryNCStep(schema, r) ==
    LET parsed == safeParse(schema, r.query)
        ev     == ParseEv("Query", "query", r.query, parsed)
    IN  IF parsed.success
        THEN Result(r, <<ev, NextEv>>)
        ELSE Result(r, <<ev>> \o sendErrorsNC(<<ErrorListItem("Query", parsed)>>))

validateRequestNCStep(ss, r) ==
    LET pq  == safeParse(ss.query, r.query)
        evq == ParseEv("Query", "query", r.query, pq)
        s1  == IF ss.query = NoSchema THEN Running(r, <<>>, <<>>)
               ELSE Running(r, IF pq.success THEN <<>> ELSE <<ErrorListItem("Query", pq)>>,
                            <<evq>>)
        pb  == safeParse(ss.body, r.body)
        evb == ParseEv("Body", "body", r.body, pb)
        s2  == IF ss.body = NoSchema THEN s1
               ELSE Running(r, IF pb.success THEN s1.errors
                               ELSE Append(s1.errors, ErrorListItem("Body", pb)),
                            Append(s1.trace, evb))
    IN  IF Len(s2.errors) > 0
        THEN Result(r, s2.trace \o sendErrorsNC(s2.errors))
        ELSE Result(r, Append(s2.trace, NextEv))

\* ------------------------------------------------------------ chain driver

\* What the invocation recorded in `trace` did.
Responses == SelectSeq(trace, LAMBDA e : e.kind = "send")
NextCalls == Len(SelectSeq(trace, LAMBDA e : e.kind = "next"))
Parses    == SelectSeq(trace, LAMBDA e : e.kind = "parse")

\* The step of entry point `name`, closed over `ss`, invoked on request r.
StepOf(name, ss, r) ==
    CASE name = "processRequestBody"     -> processRequestBodyStep(ss.body, r)
      [] name = "processRequestParams"   -> processRequestParamsStep(ss.params, r)
      [] name = "processRequestQuery"    -> processRequestQueryStep(ss.query, r)
      [] name = "processRequest"         -> processRequestStep(ss, r)
      [] name = "validateRequestBody"    -> validateRequestBodyStep(ss.body, r)
      [] name = "validateRequestParams"  -> validateRequestParamsStep(ss.params, r)
      [] name = "validateRequestQuery"   -> validateRequestQueryStep(ss.query, r)
      [] name = "validateRequest"        -> validateRequestStep(ss, r)
      [] name = "processRequestBodyNC"   -> processRequestBodyNCStep(ss.body, r)
      [] name = "processRequestQueryNC"  -> processRequestQueryNCStep(ss.query, r)
      [] name = "processRequestNC"       -> processRequestNCStep(ss, r)
      [] name = "validateRequestBodyNC"  -> validateRequestBodyNCStep(ss.body, r)
      [] name = "validateRequestQueryNC" -> validateRequestQueryNCStep(ss.query, r)
      [] name = "validateRequestNC"      -> validateRequestNCStep(ss, r)

\* The chain driver calls step(req, res, next).
Invoke(name, ss) ==
    LET res == StepOf(name, ss, req)
    IN  /\ req' = res.req
        /\ entry' = req
        /\ step' = name
        /\ schemas' = ss
        /\ trace' = res.trace
        /\ runs' = runs + 1

Fresh == runs = 0

\* One behaviour is the processing of one request: the steps keep no state
\* from one request to the next.
Init ==
    /\ req \in RawRequests
    /\ entry = req
    /\ step = "none"
    /\ schemas = Only("body", NoSchema)
    /\ trace = <<>>
    /\ runs = 0

\* src/src/index.ts
processRequestBody   == Fresh /\ \E s \in Schemas : Invoke("processRequestBody", Only("body", s))
processRequestParams == Fresh /\ \E s \in Schemas : Invoke("processRequestParams", Only("params", s))
processRequestQuery  == Fresh /\ \E s \in Schemas : Invoke("processRequestQuery", Only("query", s))
processRequest       == Fresh /\ \E ss \in SchemaSets : Invoke("processRequest", ss)
validateRequestBody   == Fresh /\ \E s \in Schemas : Invoke("validateRequestBody", Only("body", s))
validateRequestParams == Fresh /\ \E s \in Schemas : Invoke("validateRequestParams", Only("params", s))
validateRequestQuery  == Fresh /\ \E s \in Schemas : Invoke("validateRequestQuery", Only("query", s))
validateRequest       == Fresh /\ \E ss \in SchemaSets : Invoke("validateRequest", ss)

\* src/unnamed/part_000
processRequestBodyNC   == Fresh /\ \E s \in Schemas : Invoke("processRequestBodyNC", Only("body", s))
processRequestQueryNC  == Fresh /\ \E s \in Schemas : Invoke("processRequestQueryNC", Only("query", s))
processRequestNC       == Fresh /\ \E ss \in SchemaSetsNC : Invoke("processRequestNC", ss)
validateRequestBodyNC  == Fresh /\ \E s \in Schemas : Invoke("validateRequestBodyNC", Only("body", s))
validateRequestQueryNC == Fresh /\ \E s \in Schemas : Invoke("validateRequestQueryNC", Only("query", s))
validateRequestNC      == Fresh /\ \E ss \in SchemaSetsNC : Invoke("validateRequestNC", ss)

\* The step is mounted again further down the chain: next() reaches it with
\* the same request object.
Rerun ==
    /\ runs \in 1..(MaxRuns - 1)
    /\ NextCalls > 0
    /\ Len(Responses) = 0
    /\ Invoke(step, schemas)

Next ==
    \/ processRequestBody
    \/ processRequestParams
    \/ processRequestQuery
    \/ processRequest
    \/ validateRequestBody
    \/ validateRequestParams
    \/ validateRequestQuery
    \/ validateRequest
    \/ processRequestBodyNC
    \/ processRequestQueryNC
    \/ processRequestNC
    \/ validateRequestBodyNC
    \/ validateRequestQueryNC
    \/ validateRequestNC
    \/ Rerun

Spec == Init /\ [][Next]_vars


\* ------------------------------------------------------- reading the trace

Sections == {"params", "query", "body"}

TypeOrder == <<"Params", "Query", "Body">>

Label(sec) == CASE sec = "params" -> "Params"
                [] sec = "query"  -> "Query"
                [] sec = "body"   -> "Body"

SectionOf(type) == CHOOSE sec \in Sections : Label(sec) = type

Configured(sec) == schemas[sec] # NoSchema

Ran == runs > 0

MultiSteps == {"validateRequest", "processRequest", "validateRequestNC", "processRequestNC"}

ValidateSteps == {"validateRequestBody", "validateRequestParams", "validateRequestQuery",
                  "validateRequest", "validateRequestBodyNC", "validateRequestQueryNC",
                  "validateRequestNC"}

ProcessAllSteps == {"processRequest", "processRequestNC"}

\* The section a single-section entry point is named for.
OwnSection(name) ==
    CASE name \in {"processRequestBody", "validateRequestBody",
                   "processRequestBodyNC", "validateRequestBodyNC"}   -> "body"
      [] name \in {"processRequestQuery", "validateRequestQuery",
                   "processRequestQueryNC", "validateRequestQueryNC"} -> "query"
      [] name \in {"processRequestParams", "validateRequestParams"}   -> "params"

SingleSteps == {"processRequestBody", "validateRequestBody", "processRequestBodyNC",
                "validateRequestBodyNC", "processRequestQuery", "validateRequestQuery",
                "processRequestQueryNC", "validateRequestQueryNC",
                "processRequestParams", "validateRequestParams"}

\* The positions in the trace where the schema of section `sec` was run.
RunsOf(sec) == {i \in 1..Len(trace) : trace[i].kind = "parse" /\ trace[i].type = Label(sec)}

Parsed(sec) == RunsOf(sec) # {}

\* The (first) run of the schema of section `sec`.
ParseOf(sec) == trace[CHOOSE i \in RunsOf(sec) : \A j \in RunsOf(sec) : i <= j]

Accepted(sec) == Parsed(sec) /\ ParseOf(sec).success

RejectedSec(sec) == Parsed(sec) /\ ~ParseOf(sec).success

\* At least one schema run of this invocation rejected its input.
Rejected == \E i \in 1..Len(trace) : trace[i].kind = "parse" /\ ~trace[i].success

\* The labels of the sections whose schema rejected, in evaluation order.
FailedTypes == SelectSeq(TypeOrder, LAMBDA t : RejectedSec(SectionOf(t)))

\* The labels of the configured sections whose schema rejects the entry-time
\* value of its own section, in evaluation order.
FailedOnEntry ==
    SelectSeq(TypeOrder,
              LAMBDA t : /\ Configured(SectionOf(t))
                         /\ ~safeParse(schemas[SectionOf(t)], entry[SectionOf(t)]).success)

\* Some configured section's schema rejects the entry-time value of its section.
RejectedOnEntry == Len(FailedOnEntry) > 0

\* The steps of index.ts that hand a schema something else than the entry-time
\* value of its own section (lines 76 and 114).
CrossSectionSteps == {"processRequestParams", "processRequest"}

Meta == Responses[1].meta

MetaTypes == [i \in 1..Len(Meta) |-> Meta[i].type]

\* ------------------------------------------------------------------ claims

C3_MetaListsEveryFailure ==
    (Ran /\ Len(Responses) = 1) =>
        /\ step \in MultiSteps =>
              /\ MetaTypes = FailedTypes
              /\ \A i \in 1..Len(Meta) :
                    /\ Configured(SectionOf(Meta[i].type))
                    /\ Meta[i].errors = ParseOf(SectionOf(Meta[i].type)).error
        /\ step \in {"validateRequest", "validateRequestNC"} =>
              MetaTypes = FailedOnEntry
        /\ step \in SingleSteps =>
              /\ Len(Meta) = 1
              /\ Meta[1].type = Label(OwnSection(step))
              /\ Meta[1].errors = ParseOf(OwnSection(step)).error

\* validateRequest reported two failing sections, around one that passed.
C3_Witness ==
    /\ step = "validateRequest"
    /\ Len(Responses) = 1
    /\ MetaTypes = <<"Params", "Query">>
    /\ Accepted("body")

\* C4: in one invocation of validateRequest / processRequest the schema of
\* every configured section is run exactly once, whether or not an earlier
\* section failed, before the response is written or next is invoked; the
\* schema of a section absent from the schema set is never run.
C4_EveryConfiguredSectionRunOnce ==
    (Ran /\ step \in MultiSteps) =>
        /\ \A sec \in Sections :
              Cardinality(RunsOf(sec)) = IF Configured(sec) THEN 1 ELSE 0
        /\ \A i, j \in 1..Len(trace) :
              (i < j /\ trace[j].kind = "parse") => trace[i].kind = "parse"
        /\ trace[Len(trace)].kind \in {"send", "next"}

\* processRequest ran the query and body schemas after params had failed.
C4_Witness ==
    /\ step = "processRequest"
    /\ RejectedSec("params")
    /\ Parsed("query")
    /\ Parsed("body")
    /\ Len(Responses) = 1

\* C5: in processRequest, if any configured section's schema rejects, then
\* when the error response is written params, query and body all equal their
\* values on entry to the step.
C5_NoPartialCommit ==
    (Ran /\ step \in ProcessAllSteps /\ Rejected /\ Len(Responses) = 1) => req = entry

\* C6: on a successful parse, processRequestQuery and the query section of
\* processRequest leave query = the entry-time query overlaid with the coerced
\* value (and no other key); processRequestBody and the body section of
\* processRequest leave body = the coerced value exactly.
C6_MergePolicy ==
    Ran =>
        /\ (step \in ProcessAllSteps \cup {"processRequestQuery", "processRequestQueryNC"}
              /\ Accepted("query")) =>
                 req.query = Overlay(entry.query, ParseOf("query").data)
        /\ (step \in ProcessAllSteps \cup {"processRequestBody", "processRequestBodyNC"}
              /\ Accepted("body")) =>
                 req.body = ParseOf("body").data

\* C7: every single-section step runs its schema against the request section
\* it is named for; processRequestParams decides as validateRequestParams does,
\* by the schema's verdict on the request's params.
C7_SchemaRunOnOwnSection ==
    (Ran /\ step \in SingleSteps) =>
        /\ ParseOf(OwnSection(step)).source = OwnSection(step)
        /\ ParseOf(OwnSection(step)).input = entry[OwnSection(step)]
        /\ (NextCalls = 1) =
              safeParse(schemas[OwnSection(step)], entry[OwnSection(step)]).success

\* C8: on a successful params parse (processRequestParams, and the params
\* section of processRequest) the coerced value is overlaid onto req.params,
\* and the params result does not change req.query.
C8_ParamsOverlaidOntoParams ==
    (Ran /\ step \in {"processRequestParams", "processRequest"} /\ Accepted("params")) =>
        /\ \A k \in DOMAIN ParseOf("params").data :
              k \in DOMAIN req.params /\ req.params[k] = ParseOf("params").data[k]
        /\ ~Parsed("query") => req.query = entry.query

\* C9: the validation-only steps never change the request, on the accept path
\* and on the reject path alike; run a second time on the same valid request,
\* such a step advances again and leaves the request as the first run left it.
C9_ValidationDoesNotMutate ==
    (Ran /\ step \in ValidateSteps) =>
        /\ req = entry
        /\ runs >= 2 => (NextCalls = 1 /\ Len(Responses) = 0)

\* validateRequest, all three sections configured, advanced a second time.
C9_Witness ==
    /\ step = "validateRequest"
    /\ runs = 2
    /\ \A sec \in Sections : Configured(sec)
    /\ NextCalls = 1
    /\ req = entry

\* C10: in processRequest the query schema is run against the query section
\* as it was on entry to the step, whatever the params schema and verdict;
\* likewise the body schema against the entry-time body.
C10_SectionsEvaluatedIndependently ==
    (Ran /\ step \in ProcessAllSteps) =>
        /\ Parsed("query") => ParseOf("query").input = entry.query
        /\ Parsed("body") => ParseOf("body").input = entry.body

====
